---- MODULE Spec2Model ----
(***************************************************************************)
(* Model of the client-side logging API of jenkins-js-logging              *)
(* (src/index.js): the Level enum, setLogLevel, the Logger constructor     *)
(* with its hierarchical ("dot parent") level resolution over the          *)
(* categories storage namespace, the isEnabled family, and the logging     *)
(* methods with the argument list they hand to the console.                *)
(*                                                                         *)
(* A category name such as 'a.b.c' is modelled as the sequence of its dot  *)
(* segments <<"a", "b", "c">>.  JavaScript values are tagged records, so   *)
(* that identity (===), truthiness and property access are computed the    *)
(* way the interpreter computes them.                                      *)
(***************************************************************************)
EXTENDS Integers, Sequences, FiniteSets, TLC

VARIABLES categories, loggers, last, calls, console

vars == <<categories, loggers, last, calls, console>>

\* Number of API calls a behaviour makes.
MaxCalls == 3

\* ------------------------------------------------------------------------
\* JavaScript values
\* ------------------------------------------------------------------------

\* The value `undefined`.
Undefined == [type |-> "undefined"]

\* A string value.
Str(s) == [type |-> "string", value |-> s]

\* What storage hands back for a key that holds nothing.
NoValue == "<undefined>"

\* The blank value the storage namespace writes for a queried, unset key.
Blank == "_"

\* Level.DEBUG .. Level.ERROR: five distinct objects; `ref` is the object's
\* identity, so that a look-alike object is not === to the enum.
Level ==
    [DEBUG |-> [type |-> "object", ref |-> "Level.DEBUG", id |-> "DEBUG", precedence |-> 0],
     LOG   |-> [type |-> "object", ref |-> "Level.LOG",   id |-> "LOG",   precedence |-> 1],
     INFO  |-> [type |-> "object", ref |-> "Level.INFO",  id |-> "INFO",  precedence |-> 2],
     WARN  |-> [type |-> "object", ref |-> "Level.WARN",  id |-> "WARN",  precedence |-> 3],
     ERROR |-> [type |-> "object", ref |-> "Level.ERROR", id |-> "ERROR", precedence |-> 4]]

LevelIds == DOMAIN Level

Levels == {Level[i] : i \in LevelIds}

\* Level[key]: the static enums, and besides them the properties every
\* function object has (Level is declared with `function Level()`).
LevelProperty(key) ==
    IF key \in LevelIds THEN Level[key]
    ELSE IF key = "name" THEN Str("Level")
    ELSE IF key = "length" THEN [type |-> "number", value |-> 0]
    ELSE Undefined

\* ToBoolean of a value.
Truthy(v) ==
    CASE v.type = "undefined" -> FALSE
      [] v.type = "string"    -> v.value # ""
      [] v.type = "number"    -> v.value # 0
      [] OTHER                -> TRUE

\* A boolean value.
Bool(b) == [type |-> "boolean", value |-> b]

\* v.precedence is a number (it is undefined on anything but a Level enum).
HasPrecedence(v) == v.type = "object"

\* x.precedence >= y.precedence: a comparison with undefined is false.
PrecedenceGreaterOrEqual(x, y) ==
    /\ HasPrecedence(x)
    /\ HasPrecedence(y)
    /\ x.precedence >= y.precedence

\* ------------------------------------------------------------------------
\* The categories storage namespace
\* ------------------------------------------------------------------------

\* categories.get(name)
StorageGet(store, name) ==
    IF name \in DOMAIN store THEN store[name] ELSE NoValue

\* categories.set(name, value)
StorageSet(store, name, value) ==
    [k \in (DOMAIN store) \cup {name} |-> IF k = name THEN value ELSE store[k]]

\* The name with its last dot segment stripped.
DotParent(name) == SubSeq(name, 1, Len(name) - 1)

IsUnset(value) == value = NoValue \/ value = Blank

\* categories.get(name, {checkDotParent: true}): the value of the nearest
\* set name on the dot-parent path, and the store with the blank written
\* to every unset name queried on the way.
RECURSIVE GetCheckDotParent(_, _)
GetCheckDotParent(store, name) ==
    LET value == StorageGet(store, name) IN
    IF ~IsUnset(value) THEN [value |-> value, store |-> store]
    ELSE LET blanked == StorageSet(store, name, Blank) IN
         IF Len(name) <= 1 THEN [value |-> NoValue, store |-> blanked]
         ELSE GetCheckDotParent(blanked, DotParent(name))

\* ------------------------------------------------------------------------
\* Inputs
\* ------------------------------------------------------------------------

\* The category names of the test suite's hierarchy.
Categories ==
    {<<"a">>, <<"a", "b">>, <<"a", "b", "c">>, <<"a", "b", "d">>, <<"a", "x", "a">>}

\* Arguments that are not one of the predefined Level enums.
InvalidLevels ==
    {Undefined,
     Str("DEBUG"),
     [type |-> "object", ref |-> "copy", id |-> "DEBUG", precedence |-> 0]}

\* Values a storage inspector can put under a category key that are not
\* level identifiers.
SpuriousValues == {"FOO", "name", "length"}

\* The record kept of the most recent call: the operation, the receiving
\* logger (its index in loggers, 0 when there is none), the arguments,
\* whether the call threw and what it returned.
Call(op, self, category, level, threw, result) ==
    [op |-> op, self |-> self, category |-> category, level |-> level,
     threw |-> threw, result |-> result]

NoCall == Call("none", 0, Undefined, Undefined, FALSE, Undefined)

Init ==
    /\ categories = << >>
    /\ loggers = << >>
    /\ last = NoCall
    /\ calls = 0
    /\ console = << >>

\* ------------------------------------------------------------------------
\* Operations
\* ------------------------------------------------------------------------

\* setLogLevel variants: one that keeps a level already stored; one that
\* pushes the level into the loggers already created for the category; one
\* that writes before it validates.
setLogLevelMutKeep(category, level) ==
    /\ calls < MaxCalls
    /\ calls' = calls + 1
    /\ IF level \notin Levels
       THEN /\ last' = Call("setLogLevel", 0, Str(category), level, TRUE, Undefined)
            /\ UNCHANGED categories
       ELSE /\ categories' = IF IsUnset(StorageGet(categories, category))
                             THEN StorageSet(categories, category, level.id)
                             ELSE categories
            /\ last' = Call("setLogLevel", 0, Str(category), level, FALSE, Undefined)
    /\ UNCHANGED loggers

setLogLevelMutLive(category, level) ==
    /\ calls < MaxCalls
    /\ calls' = calls + 1
    /\ IF level \notin Levels
       THEN /\ last' = Call("setLogLevel", 0, Str(category), level, TRUE, Undefined)
            /\ UNCHANGED <<categories, loggers>>
       ELSE /\ categories' = StorageSet(categories, category, level.id)
            /\ loggers' = [i \in DOMAIN loggers |->
                             IF loggers[i].category = category
                             THEN [loggers[i] EXCEPT !.logLevel = level]
                             ELSE loggers[i]]
            /\ last' = Call("setLogLevel", 0, Str(category), level, FALSE, Undefined)

setLogLevelMutWriteFirst(category, level) ==
    /\ calls < MaxCalls
    /\ calls' = calls + 1
    /\ categories' = StorageSet(categories, category,
                                IF level.type = "object" THEN level.id ELSE NoValue)
    /\ last' = Call("setLogLevel", 0, Str(category), level, level \notin Levels, Undefined)
    /\ UNCHANGED loggers

\* exports.setLogLevel(category, level)
setLogLevel(category, level) ==
    /\ calls < MaxCalls
    /\ calls' = calls + 1
    /\ IF level \notin Levels
       THEN /\ last' = Call("setLogLevel", 0, Str(category), level, TRUE, Undefined)
            /\ UNCHANGED categories
       ELSE /\ categories' = StorageSet(categories, category, level.id)
            /\ last' = Call("setLogLevel", 0, Str(category), level, FALSE, Undefined)
    /\ UNCHANGED loggers

\* Logger variants: a default of DEBUG; a lookup that ignores the dot
\* parents; a constructor that stores whatever level it resolved.
LoggerMutDefault(store, category) ==
    LET got == GetCheckDotParent(store, category)
        found == LevelProperty(got.value)
    IN  IF got.value = NoValue \/ got.value = "" \/ ~Truthy(found)
        THEN [logger |-> [category |-> category, logLevel |-> Level.DEBUG],
              store  |-> StorageSet(got.store, category, Level.DEBUG.id)]
        ELSE [logger |-> [category |-> category, logLevel |-> found],
              store  |-> got.store]

LoggerMutNoDotParent(store, category) ==
    LET value == StorageGet(store, category)
        found == LevelProperty(value)
    IN  IF value = NoValue \/ value = "" \/ ~Truthy(found)
        THEN [logger |-> [category |-> category, logLevel |-> Level.ERROR],
              store  |-> StorageSet(store, category, Level.ERROR.id)]
        ELSE [logger |-> [category |-> category, logLevel |-> found],
              store  |-> store]

LoggerMutStoreLevel(store, category) ==
    LET got == GetCheckDotParent(store, category)
        found == LevelProperty(got.value)
    IN  IF got.value = NoValue \/ got.value = "" \/ ~Truthy(found)
        THEN [logger |-> [category |-> category, logLevel |-> Level.ERROR],
              store  |-> StorageSet(got.store, category, Level.ERROR.id)]
        ELSE [logger |-> [category |-> category, logLevel |-> found],
              store  |-> StorageSet(got.store, category, got.value)]

\* new Logger(category): the object constructed and the store left behind.
Logger(store, category) ==
    LET got == GetCheckDotParent(store, category)
        logLevelId == got.value
        found == LevelProperty(logLevelId)
    IN  IF logLevelId = NoValue \/ logLevelId = "" \/ ~Truthy(found)
        THEN [logger |-> [category |-> category, logLevel |-> Level.ERROR],
              store  |-> StorageSet(got.store, category, Level.ERROR.id)]
        ELSE [logger |-> [category |-> category, logLevel |-> found],
              store  |-> got.store]

\* logger variant: the storage is queried before the argument is checked.
loggerMutLateCheck(category) ==
    /\ calls < MaxCalls
    /\ calls' = calls + 1
    /\ IF category = Undefined
       THEN /\ categories' = GetCheckDotParent(categories, <<"undefined">>).store
            /\ last' = Call("logger", 0, Undefined, Undefined, TRUE, Undefined)
            /\ UNCHANGED loggers
       ELSE LET made == Logger(categories, category.value) IN
            /\ categories' = made.store
            /\ loggers' = Append(loggers, made.logger)
            /\ last' = Call("logger", Len(loggers) + 1, category, Undefined,
                             FALSE, made.logger.logLevel)

\* exports.logger(category)
logger(category) ==
    /\ calls < MaxCalls
    /\ calls' = calls + 1
    /\ IF category = Undefined
       THEN /\ last' = Call("logger", 0, Undefined, Undefined, TRUE, Undefined)
            /\ UNCHANGED <<categories, loggers>>
       ELSE LET made == Logger(categories, category.value) IN
            /\ categories' = made.store
            /\ loggers' = Append(loggers, made.logger)
            /\ last' = Call("logger", Len(loggers) + 1, category, Undefined,
                             FALSE, made.logger.logLevel)

\* getCategoriesStorageNS().set(category, value), or the same edit made in
\* the browser's storage inspector.
storageEdit(category, value) ==
    /\ calls < MaxCalls
    /\ calls' = calls + 1
    /\ categories' = StorageSet(categories, category, value)
    /\ last' = Call("storageEdit", 0, Str(category), Str(value), FALSE, Undefined)
    /\ UNCHANGED loggers

\* Logger.prototype.isEnabled, as a function of the logger and the level.
isEnabledMutGreater(this, level) ==
    /\ HasPrecedence(level)
    /\ HasPrecedence(this.logLevel)
    /\ level.precedence > this.logLevel.precedence

isEnabledMutReversed(this, level) ==
    /\ HasPrecedence(level)
    /\ HasPrecedence(this.logLevel)
    /\ level.precedence <= this.logLevel.precedence

isEnabled(this, level) == PrecedenceGreaterOrEqual(level, this.logLevel)

\* Logger.prototype.isDebugEnabled .. isWarnEnabled
isDebugEnabled(this) == isEnabled(this, Level.DEBUG)
isLogEnabled(this) == isEnabled(this, Level.LOG)
isInfoEnabled(this) == isEnabled(this, Level.INFO)
isWarnEnabled(this) == isEnabled(this, Level.WARN)

\* A call of one of the five enablement queries on the logger at index self.
Query(op, self, level, answer) ==
    /\ calls < MaxCalls
    /\ calls' = calls + 1
    /\ last' = Call(op, self, Str(loggers[self].category), level, FALSE, Bool(answer))
    /\ UNCHANGED <<categories, loggers, console>>

SetLogLevelCall ==
    \E category \in Categories, level \in Levels \cup InvalidLevels :
        setLogLevel(category, level) /\ UNCHANGED console

LoggerCall ==
    \E category \in {Str(c) : c \in Categories} \cup {Undefined} :
        logger(category) /\ UNCHANGED console

StorageEditCall ==
    \E category \in Categories, value \in SpuriousValues \cup {Blank} :
        storageEdit(category, value) /\ UNCHANGED console

IsEnabledCall ==
    \E self \in DOMAIN loggers, level \in Levels :
        Query("isEnabled", self, level, isEnabled(loggers[self], level))

IsDebugEnabledCall ==
    \E self \in DOMAIN loggers :
        Query("isDebugEnabled", self, Undefined, isDebugEnabled(loggers[self]))

IsLogEnabledCall ==
    \E self \in DOMAIN loggers :
        Query("isLogEnabled", self, Undefined, isLogEnabled(loggers[self]))

IsInfoEnabledCall ==
    \E self \in DOMAIN loggers :
        Query("isInfoEnabled", self, Undefined, isInfoEnabled(loggers[self]))

IsWarnEnabledCall ==
    \E self \in DOMAIN loggers :
        Query("isWarnEnabled", self, Undefined, isWarnEnabled(loggers[self]))

QueryCall ==
    \/ IsEnabledCall
    \/ IsDebugEnabledCall
    \/ IsLogEnabledCall
    \/ IsInfoEnabledCall
    \/ IsWarnEnabledCall

\* The API alone.
NextApi == SetLogLevelCall \/ LoggerCall \/ QueryCall

SpecApi == Init /\ [][NextApi]_vars

\* The storage is the browser's localStorage: what an earlier page left in
\* it is there when the module loads.  Here, one value under 'a'.
PersistedStores ==
    {[k \in {<<"a">>} |-> v] : v \in LevelIds \cup SpuriousValues}

InitPersisted ==
    /\ categories \in PersistedStores
    /\ loggers = << >>
    /\ last = NoCall
    /\ calls = 0
    /\ console = << >>

\* Loggers created over a persisted configuration, and queried.
NextQueries == LoggerCall \/ QueryCall

SpecQueries == InitPersisted /\ [][NextQueries]_vars

\* ------------------------------------------------------------------------
\* Logging
\* ------------------------------------------------------------------------

\* A number value.
Num(n) == [type |-> "number", value |-> n]

\* The category string: the segments joined with dots.
RECURSIVE CategoryName(_)
CategoryName(category) ==
    IF Len(category) = 1 THEN category[1]
    ELSE CategoryName(DotParent(category)) \o "." \o category[Len(category)]

\* The `arguments` object of a call: an array-like whose length is set when
\* the call is made.  Writing an index at or beyond the length adds the
\* indexed property and leaves the length as it is.
Arguments(args) == [length |-> Len(args), items |-> args]

\* callArgs[index] = value (index counted from 0), on an array-like whose
\* indices below `index` are all present.
PutIndex(arrayLike, index, value) ==
    [arrayLike EXCEPT !.items =
        IF index < Len(@) THEN [@ EXCEPT ![index + 1] = value]
        ELSE Append(@, value)]

\* fn.apply(console, arrayLike): the argument list is the indices below
\* the length.
ApplyArguments(arrayLike) == SubSeq(arrayLike.items, 1, arrayLike.length)

\* The loop that puts the copied arguments back, from index 1 on.
RECURSIVE PutBack(_, _, _)
PutBack(arrayLike, callArgsCopy, ii) ==
    IF ii >= Len(callArgsCopy) THEN arrayLike
    ELSE PutBack(PutIndex(arrayLike, ii + 1, callArgsCopy[ii + 1]), callArgsCopy, ii + 1)

\* logArgs variant: the first string argument is not merged into the prefix.
logArgsMutNoMerge(level, category, callArgs) ==
    IF callArgs.length = 0 THEN callArgs
    ELSE LET prefix == "[" \o level.id \o " - " \o category \o "] "
         IN  PutBack(PutIndex(callArgs, 0, Str(prefix)), callArgs.items, 0)

\* logArgs(level, category, callArgs)
logArgs(level, category, callArgs) ==
    IF callArgs.length = 0 THEN callArgs
    ELSE LET copied == callArgs.items
             prefix0 == "[" \o level.id \o " - " \o category \o "] "
             merges == copied[1].type = "string"
             prefix == IF merges THEN prefix0 \o copied[1].value ELSE prefix0
             callArgsCopy == IF merges THEN Tail(copied) ELSE copied
         IN  PutBack(PutIndex(callArgs, 0, Str(prefix)), callArgsCopy, 0)

\* console[fn].apply(console, logArgs(level, this.category, arguments)):
\* the console with the call added.
Emit(fn, level, this, args) ==
    Append(console,
           [fn |-> fn,
            args |-> ApplyArguments(
                        logArgs(level, CategoryName(this.category), Arguments(args)))])

\* info variant: writes with console.log.
infoMutConsoleLog(this, args) ==
    IF isEnabled(this, Level.INFO) THEN Emit("log", Level.INFO, this, args) ELSE console

\* error variant: gated like the other four methods.
errorMutGated(this, args) ==
    IF isEnabled(this, Level.ERROR) THEN Emit("error", Level.ERROR, this, args) ELSE console

\* Logger.prototype.debug
debug(this, args) ==
    IF isEnabled(this, Level.DEBUG) THEN Emit("debug", Level.DEBUG, this, args) ELSE console

\* Logger.prototype.log
log(this, args) ==
    IF isEnabled(this, Level.LOG) THEN Emit("log", Level.LOG, this, args) ELSE console

\* Logger.prototype.info
info(this, args) ==
    IF isEnabled(this, Level.INFO) THEN Emit("info", Level.INFO, this, args) ELSE console

\* Logger.prototype.warn
warn(this, args) ==
    IF isEnabled(this, Level.WARN) THEN Emit("warn", Level.WARN, this, args) ELSE console

\* Logger.prototype.error
error(this, args) == Emit("error", Level.ERROR, this, args)

\* Longest argument list of a logging call.
MaxArgs == 2

\* First arguments: a string, and a value that is not a string.
FirstArgs == {Str("m"), Num(1)}

\* Argument lists: the first argument varies, the i-th one is the number i.
ArgLists ==
    {<< >>} \cup
    {[i \in 1..n |-> IF i = 1 THEN first ELSE Num(i)] : first \in FirstArgs, n \in 1..MaxArgs}

\* The arguments of a logging call, as recorded in `last`.
Args(args) == [type |-> "arguments", value |-> args]

\* A call of one of the five logging methods on the logger at index self.
LogCall(op, self, args, written) ==
    /\ calls < MaxCalls
    /\ calls' = calls + 1
    /\ console' = written
    /\ last' = Call(op, self, Str(loggers[self].category), Args(args), FALSE, Undefined)
    /\ UNCHANGED <<categories, loggers>>

DebugCall ==
    \E self \in DOMAIN loggers, args \in ArgLists :
        LogCall("debug", self, args, debug(loggers[self], args))

LogLogCall ==
    \E self \in DOMAIN loggers, args \in ArgLists :
        LogCall("log", self, args, log(loggers[self], args))

InfoCall ==
    \E self \in DOMAIN loggers, args \in ArgLists :
        LogCall("info", self, args, info(loggers[self], args))

WarnCall ==
    \E self \in DOMAIN loggers, args \in ArgLists :
        LogCall("warn", self, args, warn(loggers[self], args))

ErrorCall ==
    \E self \in DOMAIN loggers, args \in ArgLists :
        LogCall("error", self, args, error(loggers[self], args))

\* Loggers created over a persisted configuration, and logged to.
NextLogging ==
    \/ LoggerCall
    \/ DebugCall
    \/ LogLogCall
    \/ InfoCall
    \/ WarnCall
    \/ ErrorCall

SpecLogging == InitPersisted /\ [][NextLogging]_vars

\* Loggers created while only the root category 'a' is ever configured
\* through setLogLevel.
SetRootLevelCall ==
    \E level \in Levels :
        setLogLevel(<<"a">>, level) /\ UNCHANGED console

NextInherit == LoggerCall \/ SetRootLevelCall

SpecInherit == Init /\ [][NextInherit]_vars

\* The API together with direct edits of the storage.
Next == SetLogLevelCall \/ LoggerCall \/ QueryCall \/ StorageEditCall

Spec == Init /\ [][Next]_vars

\* ------------------------------------------------------------------------
\* Properties
\* ------------------------------------------------------------------------

\* The category and its dot parents, written out as the prefixes of the name.
SelfAndDotParents(name) == {SubSeq(name, 1, n) : n \in 1..Len(name)}

\* The names on the path of `name` that hold a level identifier.
WithLevel(store, name) ==
    {p \in SelfAndDotParents(name) : StorageGet(store, p) \in LevelIds}

\* The nearest of them.
NearestWithLevel(store, name) ==
    CHOOSE p \in WithLevel(store, name) :
        \A q \in WithLevel(store, name) : Len(q) <= Len(p)

\* The step is a logger(c) call that returned a Logger.
LoggerCreated(c) ==
    /\ last'.op = "logger"
    /\ ~last'.threw
    /\ last'.category = Str(c)

\* C1: when neither the category nor any of its dot parents has a level
\* stored, logger(category) returns a Logger whose logLevel is Level.ERROR.
C1_UnsetDefaultsToError ==
    [][\A c \in Categories :
         LoggerCreated(c) /\ WithLevel(categories, c) = {}
            => /\ last'.result = Level.ERROR
               /\ loggers'[Len(loggers')] = [category |-> c, logLevel |-> Level.ERROR]]_vars

\* C1 witness: logger('a.x.a') was created with nothing stored but blanks on
\* its path (left by an earlier logger of a sibling), and it has level ERROR.
C1_Witness ==
    /\ last.op = "logger"
    /\ last.category = Str(<<"a", "x", "a">>)
    /\ last.result = Level.ERROR
    /\ Len(loggers) = 2
    /\ loggers[1].category = <<"a", "b">>
    /\ StorageGet(categories, <<"a", "b">>) = "ERROR"
    /\ StorageGet(categories, <<"a", "x">>) = Blank

\* C2: in a storage state reached through setLogLevel and logger calls,
\* logger(c) resolves to the level stored on the nearest of c and its dot
\* parents that has one: an unset c takes the nearest dot parent's level,
\* and a level on c or on a nearer ancestor overrides a farther one.
C2_NearestLevelWins ==
    [][\A c \in Categories :
         LoggerCreated(c) /\ WithLevel(categories, c) # {}
            => last'.result = Level[StorageGet(categories, NearestWithLevel(categories, c))]]_vars

\* C2 witness: with WARN on 'a' and INFO on 'a.b', logger('a.b.d') for the
\* unset 'a.b.d' has level INFO.
C2_Witness ==
    /\ last.op = "logger"
    /\ last.category = Str(<<"a", "b", "d">>)
    /\ StorageGet(categories, <<"a">>) = "WARN"
    /\ StorageGet(categories, <<"a", "b">>) = "INFO"
    /\ StorageGet(categories, <<"a", "b", "d">>) = Blank
    /\ last.result = Level.INFO

\* The step writes the category's key on purpose: a setLogLevel that did
\* not throw, or a direct edit of the storage.
WritesCategory(c) ==
    /\ last'.category = Str(c)
    /\ \/ last'.op = "setLogLevel" /\ ~last'.threw
       \/ last'.op = "storageEdit"

\* C3: after setLogLevel(c, L) storage holds L.id for c whatever it held
\* before; the stored level stays until the next write to c, whatever other
\* calls are made; and logger(c) then has logLevel L.
C3_LastSetLogLevelWins ==
    [][\A c \in Categories :
         /\ (last'.op = "setLogLevel" /\ last'.category = Str(c) /\ last'.level \in Levels)
               => /\ ~last'.threw
                  /\ StorageGet(categories', c) = last'.level.id
         /\ (StorageGet(categories, c) \in LevelIds /\ ~WritesCategory(c))
               => StorageGet(categories', c) = StorageGet(categories, c)
         /\ (LoggerCreated(c) /\ StorageGet(categories, c) \in LevelIds)
               => last'.result = Level[StorageGet(categories, c)]]_vars

\* C3 witness: 'a.b.c' was set twice (the second time to LOG, over a parent
\* at another level) and logger('a.b.c') has level LOG.
C3_Witness ==
    /\ calls = 3
    /\ last.op = "logger"
    /\ last.category = Str(<<"a", "b", "c">>)
    /\ DOMAIN categories = {<<"a", "b", "c">>}
    /\ categories[<<"a", "b", "c">>] = "LOG"
    /\ last.result = Level.LOG

\* The level a query call asks about.
QueriedLevel ==
    CASE last.op = "isEnabled"      -> last.level
      [] last.op = "isDebugEnabled" -> Level.DEBUG
      [] last.op = "isLogEnabled"   -> Level.LOG
      [] last.op = "isInfoEnabled"  -> Level.INFO
      [] last.op = "isWarnEnabled"  -> Level.WARN

QueryOps == {"isEnabled", "isDebugEnabled", "isLogEnabled", "isInfoEnabled", "isWarnEnabled"}

\* The levels at or above a level, by the order DEBUG, LOG, INFO, WARN, ERROR.
LevelOrder == <<"DEBUG", "LOG", "INFO", "WARN", "ERROR">>

Rank(id) == CHOOSE n \in DOMAIN LevelOrder : LevelOrder[n] = id

\* C4: isEnabled(L) on a logger is true exactly when L's precedence is at
\* least the precedence of the logger's resolved level, and isDebugEnabled,
\* isLogEnabled, isInfoEnabled, isWarnEnabled answer as isEnabled of their
\* level does.
C4_IsEnabledIffPrecedence ==
    last.op \in QueryOps =>
        LET resolved == loggers[last.self].logLevel IN
        /\ last.result.type = "boolean"
        /\ resolved \in Levels =>
              /\ last.result.value <=> QueriedLevel.precedence >= resolved.precedence
              /\ last.result.value <=> Rank(QueriedLevel.id) >= Rank(resolved.id)
        /\ resolved \notin Levels => ~last.result.value

\* C4 witness: isInfoEnabled() answered true on a logger that inherited LOG.
C4_Witness ==
    /\ last.op = "isInfoEnabled"
    /\ loggers[last.self].logLevel = Level.LOG
    /\ loggers[last.self].category = <<"a", "b", "c">>
    /\ StorageGet(categories, <<"a", "b", "c">>) = Blank
    /\ last.result.value

\* C5: isEnabled is monotonic in precedence: on one logger, two isEnabled
\* calls in a row never report the lower-precedence level enabled and the
\* higher-precedence level disabled, in either order of asking.
C5_IsEnabledMonotonic ==
    [][(/\ last.op = "isEnabled"
        /\ last'.op = "isEnabled"
        /\ last'.self = last.self)
          => /\ (last.level.precedence < last'.level.precedence /\ last.result.value)
                   => last'.result.value
             /\ (last'.level.precedence < last.level.precedence /\ last'.result.value)
                   => last.result.value]_vars

\* C5 witness: a logger that inherited INFO was created and then queried
\* twice, and the second answer, for WARN, is true.
C5_Witness ==
    /\ calls = 3
    /\ Len(loggers) = 1
    /\ loggers[1] = [category |-> <<"a", "b">>, logLevel |-> Level.INFO]
    /\ last.op = "isEnabled"
    /\ last.self = 1
    /\ last.level = Level.WARN
    /\ last.result.value

\* The name holds nothing, or the blank.
HoldsNothing(store, name) == StorageGet(store, name) \in {NoValue, Blank}

\* The level the claim of C6 gives a new logger: that of the nearest of the
\* category and its dot parents that is configured with a level, else ERROR.
NearestConfiguredLevel(store, name) ==
    IF WithLevel(store, name) = {} THEN Level.ERROR
    ELSE Level[StorageGet(store, NearestWithLevel(store, name))]

\* C6: for any contents of the storage, direct edits included, the Logger
\* that logger(c) constructs has one of the predefined Level enums as its
\* level, namely that of the nearest configured category among c and its
\* dot parents, or ERROR if there is none.
C6_ResolvedLevelIsNearestConfigured ==
    [][\A c \in Categories :
         LoggerCreated(c)
            => /\ last'.result \in Levels
               /\ last'.result = NearestConfiguredLevel(categories, c)]_vars

\* C7: a Logger's category and logLevel are fixed at construction: no call
\* changes a logger already created, so its isEnabled answers stay as they
\* were; a logger created later is appended with the level resolved then.
C7_LoggerFixedAtConstruction ==
    [][/\ \A i \in DOMAIN loggers :
            /\ i \in DOMAIN loggers'
            /\ loggers'[i] = loggers[i]
            /\ \A L \in Levels : isEnabled(loggers'[i], L) = isEnabled(loggers[i], L)
       /\ \A c \in Categories :
            LoggerCreated(c) => /\ Len(loggers') = Len(loggers) + 1
                                /\ loggers'[Len(loggers')].category = c
                                /\ loggers'[Len(loggers')].logLevel = last'.result]_vars

\* C7 witness: a logger of 'a.b.c' created at the default ERROR, then
\* setLogLevel('a.b.c', DEBUG), then a second logger of 'a.b.c': the first
\* still has ERROR, the second has DEBUG.
C7_Witness ==
    /\ Len(loggers) = 2
    /\ loggers[1] = [category |-> <<"a", "b", "c">>, logLevel |-> Level.ERROR]
    /\ loggers[2] = [category |-> <<"a", "b", "c">>, logLevel |-> Level.DEBUG]
    /\ StorageGet(categories, <<"a", "b", "c">>) = "DEBUG"
    /\ ~isEnabled(loggers[1], Level.DEBUG)
    /\ isEnabled(loggers[2], Level.DEBUG)

\* The names the lookup for `name` queries and finds unset: the name and
\* its dot parents, up to the first one that holds a value.
QueriedUnset(store, name) ==
    {p \in SelfAndDotParents(name) :
        \A q \in SelfAndDotParents(name) : Len(q) >= Len(p) => HoldsNothing(store, q)}

\* The value the lookup for `name` comes back with.
NearestSetValue(store, name) ==
    LET held == {p \in SelfAndDotParents(name) : ~HoldsNothing(store, p)} IN
    IF held = {} THEN NoValue
    ELSE StorageGet(store, CHOOSE p \in held : \A q \in held : Len(q) <= Len(p))

C9_InvalidLevelThrows ==
    [][(last'.op = "setLogLevel" /\ last'.level \notin Levels)
          => /\ last'.threw
             /\ categories' = categories
             /\ loggers' = loggers]_vars

\* C9 witness: with WARN stored for 'a', setLogLevel('a', <a look-alike of
\* Level.DEBUG>) threw and 'a' still holds WARN.
C9_Witness ==
    /\ last.op = "setLogLevel"
    /\ last.threw
    /\ last.category = Str(<<"a">>)
    /\ last.level = [type |-> "object", ref |-> "copy", id |-> "DEBUG", precedence |-> 0]
    /\ StorageGet(categories, <<"a">>) = "WARN"

\* C10: logger() with the category argument missing throws before the
\* storage is read or written: no Logger is created, the storage is as it
\* was.
C10_MissingCategoryThrows ==
    [][(last'.op = "logger" /\ last'.category = Undefined)
          => /\ last'.threw
             /\ last'.result = Undefined
             /\ categories' = categories
             /\ loggers' = loggers]_vars

\* C10 witness: logger() threw after a logger of 'a.b' had been created;
\* that logger is the only one and the storage holds what it left.
C10_Witness ==
    /\ last.op = "logger"
    /\ last.threw
    /\ Len(loggers) = 1
    /\ loggers[1].category = <<"a", "b">>
    /\ StorageGet(categories, <<"a", "b">>) = "ERROR"
    /\ StorageGet(categories, <<"a">>) = Blank

\* The four gated logging methods and the level each one logs at.
GatedOps == {"debug", "log", "info", "warn"}

LogOps == GatedOps \cup {"error"}

OpLevelId(op) ==
    CASE op = "debug" -> "DEBUG"
      [] op = "log"   -> "LOG"
      [] op = "info"  -> "INFO"
      [] op = "warn"  -> "WARN"
      [] op = "error" -> "ERROR"

\* The method's level is enabled for the logger, by the order of the levels.
EnabledFor(lg, op) ==
    /\ lg.logLevel \in Levels
    /\ Rank(OpLevelId(op)) >= Rank(lg.logLevel.id)

\* The step adds exactly one call, of console function fn, after the calls
\* the console had received.
OneConsoleCall(fn) ==
    /\ Len(console') = Len(console) + 1
    /\ SubSeq(console', 1, Len(console)) = console
    /\ console'[Len(console')].fn = fn

\* C11: a debug, log, info or warn call makes exactly one call of the
\* console function of the same name when its level is enabled for the
\* logger and none otherwise; the console keeps the calls it has received,
\* in the order they were made.
C11_GatedCallsReachConsoleInOrder ==
    [][/\ last'.op \in GatedOps
            => IF EnabledFor(loggers[last'.self], last'.op)
               THEN OneConsoleCall(last'.op)
               ELSE console' = console
       /\ Len(console') >= Len(console)
       /\ SubSeq(console', 1, Len(console)) = console]_vars

\* C11 witness: on a logger that inherited DEBUG, debug() and then warn()
\* were called and the console holds a debug call followed by a warn call.
C11_Witness ==
    /\ Len(loggers) = 1
    /\ loggers[1] = [category |-> <<"a", "b">>, logLevel |-> Level.DEBUG]
    /\ last.op = "warn"
    /\ Len(console) = 2
    /\ console[1].fn = "debug"
    /\ console[2].fn = "warn"

\* C12: error() always emits: whatever the logger's resolved level and the
\* storage contents, each call makes exactly one console.error call.
C12_ErrorAlwaysEmits ==
    [][last'.op = "error" => OneConsoleCall("error")]_vars

\* C12 witness: error() emitted on a logger whose level is not a Level enum
\* (no level is enabled for it), after a warn() on it that emitted nothing.
C12_Witness ==
    /\ Len(loggers) = 1
    /\ loggers[1].logLevel \notin Levels
    /\ calls = 3
    /\ last.op = "error"
    /\ Len(console) = 1
    /\ console[1].fn = "error"

\* C13: when the lookup for a category comes back with nothing or with a
\* value that is not the identifier of a predefined level, logger(category)
\* has logLevel Level.ERROR and storage afterwards holds 'ERROR' for the
\* category; logger creation does not fail.
C13_SpuriousValueDefaultsToError ==
    [][\A c \in Categories :
         (/\ last'.op = "logger"
          /\ last'.category = Str(c)
          /\ NearestSetValue(categories, c) \notin LevelIds)
            => /\ ~last'.threw
               /\ last'.result = Level.ERROR
               /\ StorageGet(categories', c) = "ERROR"]_vars

\* The category string, written out.
DottedName(c) ==
    CASE c = <<"a">>           -> "a"
      [] c = <<"a", "b">>      -> "a.b"
      [] c = <<"a", "b", "c">> -> "a.b.c"
      [] c = <<"a", "b", "d">> -> "a.b.d"
      [] c = <<"a", "x", "a">> -> "a.x.a"

\* '[' + level id + ' - ' + category + '] '
ExpectedPrefix(op, c) == "[" \o OpLevelId(op) \o " - " \o DottedName(c) \o "] "

\* The step is a logging call that reached the console.
Emitted ==
    /\ last'.op \in LogOps
    /\ Len(console') = Len(console) + 1

\* C14: when a logging call whose first argument is a string s is emitted,
\* the console receives '[' + level id + ' - ' + category + '] ' + s,
\* followed by the remaining arguments unchanged and in order; a call with
\* no arguments passes no arguments to the console.
C14_PrefixMergedIntoFirstString ==
    [][Emitted =>
         LET args == last'.level.value
             received == console'[Len(console')].args
             c == loggers[last'.self].category
         IN  /\ args = << >> => received = << >>
             /\ (args # << >> /\ args[1].type = "string")
                   => received = <<Str(ExpectedPrefix(last'.op, c) \o args[1].value)>>
                                     \o Tail(args)]_vars

\* C14 witness: warn('m', 2) on the logger of 'a.b' reached console.warn as
\* ('[WARN - a.b] m', 2).
C14_Witness ==
    /\ last.op = "warn"
    /\ last.level = Args(<<Str("m"), Num(2)>>)
    /\ Len(console) = 1
    /\ console[1] = [fn |-> "warn", args |-> <<Str("[WARN - a.b] m"), Num(2)>>]

\* C15: creating loggers does not configure categories: in a program that
\* calls setLogLevel on the root category 'a' only, a logger(c) created
\* right after setLogLevel('a', L) has level L for every descendant c of
\* 'a', however many loggers were created before.
C15_LoggersDoNotConfigure ==
    [][\A c \in Categories \ {<<"a">>} :
         (/\ last.op = "setLogLevel"
          /\ ~last.threw
          /\ last.category = Str(<<"a">>)
          /\ LoggerCreated(c))
            => last'.result = last.level]_vars

\* C16: no argument of an emitted logging call is lost: with n >= 1
\* arguments, the console receives the prefix merged with a first string
\* argument and then the others, or, when the first argument is not a
\* string, the prefix followed by all n arguments.
C16_NoArgumentLost ==
    [][Emitted =>
         LET args == last'.level.value
             received == console'[Len(console')].args
             c == loggers[last'.self].category
         IN  args # << >> =>
               IF args[1].type = "string"
               THEN received = <<Str(ExpectedPrefix(last'.op, c) \o args[1].value)>>
                                   \o Tail(args)
               ELSE received = <<Str(ExpectedPrefix(last'.op, c))>> \o args]_vars

====
